---- MODULE Spec2Model ----
(***************************************************************************)
(* depstubber.go: main and createStubs as a state machine.                 *)
(*                                                                         *)
(* A string is a sequence of byte values, so that sort.Strings,            *)
(* strings.Join, strings.Split and filepath.Join are what they are in Go.  *)
(* A text (generator buffer, file content) is a sequence of lines, each a  *)
(* record [kind, a, b, c] naming the format string of the g.p call that     *)
(* produced it and the strings substituted into it.                        *)
(***************************************************************************)
EXTENDS Naturals, Sequences, FiniteSets, TLC

\* ------------------------------------------------------------------ bounds
\* Number of distinct external package paths the usage scan may report.
NumPkgs == 2

\* ------------------------------------------------------------ byte values
Newline == 10
Comma == 44
Dot == 46
Slash == 47

\* The package argument "." (the package of the current directory).
DotPkg == <<Dot>>
\* "vendor"
VendorName == <<118, 101, 110, 100, 111, 114>>
\* "stub.go"
StubFile == <<115, 116, 117, 98, 46, 103, 111>>
\* "modules.txt", the file stubModulesTxt writes under vendor/
ModulesTxt == <<109, 111, 100, 117, 108, 101, 115, 46, 116, 120, 116>>

\* ------------------------------------------------- strings and file paths
\* Byte-wise lexicographic order, the order of sort.Strings.
RECURSIVE StringLess(_, _)
StringLess(s, t) ==
    IF t = <<>> THEN FALSE
    ELSE IF s = <<>> THEN TRUE
    ELSE IF s[1] # t[1] THEN s[1] < t[1]
    ELSE StringLess(Tail(s), Tail(t))

RECURSIVE InsertSorted(_, _)
InsertSorted(x, s) ==
    IF s = <<>> THEN <<x>>
    ELSE IF StringLess(s[1], x) THEN <<s[1]>> \o InsertSorted(x, Tail(s))
    ELSE <<x>> \o s

\* A plausible slip: the sort call of line 82 left out.
SortStrings_Skipped(s) == s

\* sort.Strings
RECURSIVE SortStrings(_)
SortStrings(s) ==
    IF s = <<>> THEN <<>> ELSE InsertSorted(s[1], SortStrings(Tail(s)))

\* DeduplicateStrings: each string once.
RECURSIVE DeduplicateStrings(_)
DeduplicateStrings(s) ==
    IF s = <<>> THEN <<>>
    ELSE LET rest == DeduplicateStrings(SubSeq(s, 1, Len(s) - 1))
             last == s[Len(s)]
         IN  IF \E i \in 1..Len(rest) : rest[i] = last THEN rest
             ELSE Append(rest, last)

\* strings.Join(names, sep)
RECURSIVE Join(_, _)
Join(names, sep) ==
    IF names = <<>> THEN <<>>
    ELSE IF Len(names) = 1 THEN names[1]
    ELSE names[1] \o sep \o Join(Tail(names), sep)

\* strings.Split(s, sep) for a one-byte separator: always at least one piece.
RECURSIVE Split(_, _)
Split(s, sep) ==
    IF \A i \in 1..Len(s) : s[i] # sep THEN <<s>>
    ELSE LET k == CHOOSE i \in 1..Len(s) :
                    s[i] = sep /\ \A j \in 1..(i - 1) : s[j] # sep
         IN  <<SubSeq(s, 1, k - 1)>> \o Split(SubSeq(s, k + 1, Len(s)), sep)

\* split: the comma-separated list of a positional argument; none for "".
SplitArg(s) == IF s = <<>> THEN <<>> ELSE Split(s, Comma)

\* filepath.Join: the non-empty elements, separated by a slash.
RECURSIVE FilepathJoin(_)
FilepathJoin(parts) ==
    IF parts = <<>> THEN <<>>
    ELSE LET rest == FilepathJoin(Tail(parts))
         IN  IF parts[1] = <<>> THEN rest
             ELSE IF rest = <<>> THEN parts[1]
             ELSE parts[1] \o <<Slash>> \o rest

\* filepath.Dir: all but the last element; "." when there is no slash.
FilepathDir(p) ==
    IF \A i \in 1..Len(p) : p[i] # Slash THEN <<Dot>>
    ELSE LET k == CHOOSE i \in 1..Len(p) :
                    p[i] = Slash /\ \A j \in (i + 1)..Len(p) : p[j] # Slash
         IN  IF k = 1 THEN <<Slash>> ELSE SubSeq(p, 1, k - 1)

\* p is dir or lies under dir.
Under(p, dir) ==
    \/ p = dir
    \/ /\ Len(p) > Len(dir)
       /\ SubSeq(p, 1, Len(dir)) = dir
       /\ p[Len(dir) + 1] = Slash

\* dir and the directories above it (what os.MkdirAll makes exist).
RECURSIVE DirChain(_)
DirChain(dir) ==
    IF dir = <<Dot>> \/ dir = <<Slash>> \/ dir = <<>> THEN {}
    ELSE {dir} \cup DirChain(FilepathDir(dir))


\* Go's map index: the zero value (no names) for a missing key.
Lookup(m, k) == IF k \in DOMAIN m THEN m[k] ELSE <<>>

\* The orders in which `for path := range m` may visit a map's keys.
RangeOrders(m) ==
    {s \in [1..Cardinality(DOMAIN m) -> DOMAIN m] :
        \A i, j \in DOMAIN s : i # j => s[i] # s[j]}

\* ------------------------------------------------------------------ inputs
\* The package paths the scanned tree may import: "a", "a/b", "b", "b/b", ...
PkgPath(i) ==
    IF i % 2 = 1 THEN <<96 + (i + 1) \div 2>> ELSE <<96 + i \div 2, Slash, 98>>

AllPkgs == {PkgPath(i) : i \in 1..NumPkgs}

\* The names the scan reports for a path, in the order it reports them.
TypeNamesOf(p) == IF Len(p) = 1 THEN <<(<<85>>), (<<84>>)>> ELSE <<(<<84>>)>>
FuncNamesOf(p) == IF Len(p) = 1 THEN <<(<<70>>)>> ELSE <<(<<71>>), (<<70>>)>>

\* What autoDetect(".", ".") can return: the two maps.
ScanResults ==
    {[types |-> [p \in S1 |-> TypeNamesOf(p)], funcs |-> [p \in S2 |-> FuncNamesOf(p)]] :
        S1 \in SUBSET AllPkgs, S2 \in SUBSET AllPkgs}

NoScan == [types |-> [p \in {} |-> <<>>], funcs |-> [p \in {} |-> <<>>]]

\* The positional arguments of explicit mode: none to four of
\* <package> <types> <functions> <extra>.
ArgLists ==
    LET P == {DotPkg, PkgPath(1)}
        T == {<<>>, <<84>>, <<85, Comma, 84>>}
        F == {<<>>, <<70>>}
    IN  {<<>>} \cup {<<p>> : p \in P} \cup {<<p, t>> : p \in P, t \in T}
        \cup {<<p, t, f>> : p \in P, t \in T, f \in F}
        \cup {<<p, t, f, <<120>>>> : p \in P, t \in T, f \in F}

\* flag.Arg(i): "" when there is no such argument.
FlagArg(a, i) == IF i < Len(a) THEN a[i + 1] ELSE <<>>

\* The module root findModuleRoot reports for the working directory: "/m".
ModuleRoot == <<Slash, 109>>
\* The package name packageNameOfDir reports for the working directory: "m/c".
CwdPkg == <<109, Slash, 99>>
\* A value of -destination: "o/s.go".
DestFile == <<111, Slash, 115, 46, 103, 111>>
\* Two values of -copyright_file: "C", a file holding "L\nM", and "E", an
\* empty file.
CopyrightName == <<67>>
EmptyName == <<69>>
FileText(name) == IF name = CopyrightName THEN <<76, Newline, 77>> ELSE <<>>

\* -------------------------------------------------------------------- text
Line(kind, a, b, c) == [kind |-> kind, a |-> a, b |-> b, c |-> c]
Blank == Line("blank", <<>>, <<>>, <<>>)
GeneratedMarker == Line("// Code generated by depstubber. DO NOT EDIT.", <<>>, <<>>, <<>>)

\* A stub left by an earlier run of the tool, and a manifest.
OldText == <<GeneratedMarker, Line("old", <<>>, <<>>, <<>>)>>
ManifestText == <<Line("modules.txt", <<>>, <<>>, <<>>)>>

VendorDir == FilepathJoin(<<ModuleRoot, VendorName>>)
ManifestPath == FilepathJoin(<<VendorDir, ModulesTxt>>)

NoFiles == [p \in {} |-> <<>>]
OldFiles ==
    (FilepathJoin(<<VendorDir, PkgPath(1), StubFile>>) :> OldText)
    @@ (DestFile :> OldText) @@ (ManifestPath :> ManifestText)
OldDirs == DirChain(FilepathJoin(<<VendorDir, PkgPath(1)>>)) \cup DirChain(FilepathDir(DestFile))

\* The package reflectMode loads: its Body declares the requested names.
ReflectMode(name, types, funcs) ==
    [Body |-> Line("body", name, Join(types, <<Comma>>), Join(funcs, <<Comma>>))]

CommentLines(header) ==
    LET ls == Split(header, Newline)
    IN  [i \in 1..Len(ls) |-> Line("// %s", ls[i], <<>>, <<>>)]

\* A plausible slip: the two name lists in each other's place.
SourceLine_Swapped(gen) ==
    Line("// Source: %s (exports: %s; functions: %s)",
         gen.srcPackage, gen.srcFunctions, gen.srcExports)

\* The line g.p writes at line 227.
SourceLine(gen) ==
    Line("// Source: %s (exports: %s; functions: %s)",
         gen.srcPackage, gen.srcExports, gen.srcFunctions)

\* generator.Generate: the buffer after it.
Generate(gen, p) ==
    gen.buf
    \o <<GeneratedMarker,
         Line("// This is a simple stub for %s, strictly for use in testing.",
              gen.srcPackage, <<>>, <<>>),
         Blank>>
    \o (IF gen.copyrightHeader # <<>>
        THEN <<Line("// See the license below for information about the licensing of the original library.",
                    <<>>, <<>>, <<>>),
               Blank>>
             \o CommentLines(gen.copyrightHeader) \o <<Blank>>
        ELSE <<Line("// See the LICENSE file for information about the licensing of the original library.",
                    <<>>, <<>>, <<>>)>>)
    \o <<SourceLine(gen), Blank, Blank, p.Body>>

\* imports.Process on well-formed source: comments kept, runs of blank lines
\* collapsed to one, the declarations formatted.
RECURSIVE Format(_)
Format(buf) ==
    IF buf = <<>> THEN <<>>
    ELSE IF buf[1] = Blank /\ Len(buf) > 1 /\ buf[2] = Blank THEN Format(Tail(buf))
    ELSE IF buf[1].kind = "body"
         THEN <<[buf[1] EXCEPT !.kind = "gofmt"]>> \o Format(Tail(buf))
    ELSE <<buf[1]>> \o Format(Tail(buf))


\* ------------------------------------------------------------------- state
VARIABLES
    \* the flags (lines 20-30) and the positional arguments
    destination, vendor, copyrightFile, writeModuleTxt, forceOverwrite,
    modeAutoDetection, modePrintGoGenComments, args,
    \* what autoDetect returns for the tree in the current directory
    scanned,
    \* main: where control is, the scan's maps, the sorted paths, the loop index
    pc, pathToTypeNames, pathToFuncAndVarNames, pkgPaths, idx,
    \* createStubs: its parameters and locals
    packageName, typeNames, funcAndVarNames, pkg, dst, g, out,
    \* the files (path -> text), the directories, and what stdout received
    fs, dirs, stdout,
    \* the results the environment gave: <<call site, package>> -> outcome
    env,
    \* the step whose failure ended the run ("" while none has failed)
    failedAt,
    \* bookkeeping: the createStubs calls made, the stubs written, call counts,
    \* the files as they were at the start of the current pass and of the run
    passes, writes, calls, passStart, initial,
    \* the run (1, or 2 when the same command is run again) and the first run's record
    run, prev

inputVars ==
    <<vendor, copyrightFile, writeModuleTxt, forceOverwrite, modeAutoDetection,
      modePrintGoGenComments, args, scanned>>
scanVars == <<pathToTypeNames, pathToFuncAndVarNames, pkgPaths>>
passVars == <<packageName, typeNames, funcAndVarNames, pkg, dst, g, out>>
osVars == <<fs, dirs, stdout>>
runVars == <<initial, run, prev>>
vars ==
    <<destination, inputVars, scanVars, passVars, osVars, runVars, pc, idx, env,
      failedAt, passes, writes, calls, passStart>>

\* The zero value of the generator struct (lines 195-201).
ZeroGenerator ==
    [buf |-> <<>>, srcPackage |-> <<>>, srcExports |-> <<>>, srcFunctions |-> <<>>,
     copyrightHeader |-> <<>>]

\* A plausible slip: one generator for all passes, its buffer never reset.
NewGenerator_Reused == [ZeroGenerator EXCEPT !.buf = g.buf]

\* new(generator), line 150.
NewGenerator == ZeroGenerator

NoCalls ==
    [autoDetect |-> 0, reflectMode |-> 0, stubModulesTxt |-> 0, usage |-> 0,
     removeAll |-> 0, create |-> 0]

Snapshot == [fs |-> fs, dirs |-> dirs, stdout |-> stdout]

\* The mode the flags select (lines 37, 42, 68, 93).
ModuleTxtMode == writeModuleTxt
PrintMode == ~writeModuleTxt /\ modePrintGoGenComments
AutoMode == ~writeModuleTxt /\ ~modePrintGoGenComments /\ modeAutoDetection
ExplicitMode == ~writeModuleTxt /\ ~modePrintGoGenComments /\ ~modeAutoDetection

Init ==
    /\ vendor \in BOOLEAN
    /\ forceOverwrite \in BOOLEAN
    /\ writeModuleTxt \in BOOLEAN
    /\ modeAutoDetection \in BOOLEAN
    /\ modePrintGoGenComments \in BOOLEAN
    /\ destination \in {<<>>, DestFile}
    /\ copyrightFile \in {<<>>, CopyrightName, EmptyName}
    \* the positional arguments are read in explicit mode only, the scan's
    \* result in the two modes that scan
    /\ args \in IF ExplicitMode THEN ArgLists ELSE {<<>>}
    /\ scanned \in IF AutoMode \/ PrintMode THEN ScanResults ELSE {NoScan}
    /\ \E old \in BOOLEAN :
         /\ fs = IF old THEN OldFiles ELSE NoFiles
         /\ dirs = IF old THEN OldDirs ELSE {}
    /\ stdout = <<>>
    /\ pc = "main"
    /\ pathToTypeNames = NoScan.types
    /\ pathToFuncAndVarNames = NoScan.funcs
    /\ pkgPaths = <<>>
    /\ idx = 1
    /\ packageName = <<>>
    /\ typeNames = <<>>
    /\ funcAndVarNames = <<>>
    /\ pkg = [Body |-> Blank]
    /\ dst = <<>>
    /\ g = ZeroGenerator
    /\ out = <<>>
    /\ env = [k \in {} |-> ""]
    /\ failedAt = ""
    /\ passes = <<>>
    /\ writes = <<>>
    /\ calls = NoCalls
    /\ passStart = Snapshot
    /\ initial = [fs |-> fs, dirs |-> dirs, destination |-> destination]
    /\ run = 1
    /\ prev = [passes |-> <<>>, writes |-> <<>>, stdout |-> <<>>, pc |-> "", failedAt |-> ""]

\* ------------------------------------------------------------- environment
\* The outcome o of an external call: free the first time the call is made for
\* a package, and the same when the same command is run again.
Gives(site, subject, o) ==
    <<site, subject>> \in DOMAIN env => o = env[<<site, subject>>]

Noted(e, site, subject, o) ==
    IF <<site, subject>> \in DOMAIN e THEN e ELSE (<<site, subject>> :> o) @@ e

\* A plausible slip: log.Printf where log.Fatalf was meant, so the step's
\* failure is reported and the run goes on to the loop's next pass.
Fatalf_Continues(site) ==
    /\ failedAt' = site
    /\ pc' = IF pc \in {"main", "mode"} THEN "modtxt"
             ELSE IF modeAutoDetection THEN "loop" ELSE "modtxt"

\* log.Fatalf (and the panic of line 60): the process exits at once.
Fatalf(site) ==
    /\ failedAt' = site
    /\ pc' = "fatal"


\* ------------------------------------------------------------------- files
WithManifest(files) == (ManifestPath :> ManifestText) @@ files

\* os.RemoveAll(dir)
FilesOutside(files, dir) ==
    [p \in {q \in DOMAIN files : ~Under(q, dir)} |-> files[p]]
DirsOutside(ds, dir) == {d \in ds : ~Under(d, dir)}

\* A plausible slip: -destination, when given, wins over -vendor.
StubDestination_FlagWins(dest, name) ==
    IF dest # <<>> THEN dest
    ELSE FilepathJoin(<<ModuleRoot, VendorName, name, StubFile>>)

\* Line 135: the destination under -vendor, whatever -destination held.
StubDestination(dest, name) ==
    FilepathJoin(<<ModuleRoot, VendorName, name, StubFile>>)

\* printGoGenerateComments: one comment per package of the scan.
GoGenerateComments(types, funcs) ==
    LET paths == SortStrings(DeduplicateStrings(
                     SortStrings(CHOOSE s \in RangeOrders(types) : TRUE)
                     \o SortStrings(CHOOSE s \in RangeOrders(funcs) : TRUE)))
    IN  [i \in 1..Len(paths) |->
            Line("//go:generate depstubber", paths[i],
                 Join(Lookup(types, paths[i]), <<Comma>>),
                 Join(Lookup(funcs, paths[i]), <<Comma>>))]

\* --------------------------------------------------------------------- main
\* Lines 37-40: -write_module_txt writes the manifest and returns.
WriteModuleTxtMode ==
    /\ pc = "main"
    /\ writeModuleTxt
    /\ calls' = [calls EXCEPT !.stubModulesTxt = @ + 1]
    /\ \E o \in {"ok", "err"} :
         /\ Gives("stubModulesTxt", <<>>, o)
         /\ env' = Noted(env, "stubModulesTxt", <<>>, o)
         /\ IF o = "ok"
            THEN /\ fs' = WithManifest(fs)
                 /\ dirs' = dirs \cup DirChain(VendorDir)
                 /\ pc' = "done"
                 /\ UNCHANGED failedAt
            ELSE /\ Fatalf("stubModulesTxt")
                 /\ UNCHANGED <<fs, dirs>>
    /\ UNCHANGED <<destination, inputVars, scanVars, passVars, stdout, runVars, idx,
                   passes, writes, passStart>>

\* Lines 42-49: -print scans and prints the go:generate comments.
PrintGoGenComments ==
    /\ pc = "main"
    /\ PrintMode
    /\ calls' = [calls EXCEPT !.autoDetect = @ + 1]
    /\ \E o \in {"ok", "err"} :
         /\ Gives("autoDetect", <<>>, o)
         /\ env' = Noted(env, "autoDetect", <<>>, o)
         /\ IF o = "ok"
            THEN /\ pathToTypeNames' = scanned.types
                 /\ pathToFuncAndVarNames' = scanned.funcs
                 /\ stdout' = stdout \o GoGenerateComments(scanned.types, scanned.funcs)
                 /\ pc' = "done"
                 /\ UNCHANGED failedAt
            ELSE /\ Fatalf("autoDetect")
                 /\ UNCHANGED <<pathToTypeNames, pathToFuncAndVarNames, stdout>>
    /\ UNCHANGED <<destination, inputVars, pkgPaths, passVars, fs, dirs, runVars, idx,
                   passes, writes, passStart>>

\* Lines 51-66: under -vendor -force the vendor directory, if there is one,
\* is removed with all it holds.
ForceOverwrite ==
    /\ pc = "main"
    /\ ~writeModuleTxt
    /\ ~modePrintGoGenComments
    /\ IF vendor /\ forceOverwrite
       THEN \E o \in {"ok", "getwd", "direxists"} :
              /\ Gives("force", <<>>, o)
              /\ env' = Noted(env, "force", <<>>, o)
              /\ IF o = "ok"
                 THEN /\ pc' = "mode"
                      /\ UNCHANGED failedAt
                      /\ IF VendorDir \in dirs
                         THEN /\ fs' = FilesOutside(fs, VendorDir)
                              /\ dirs' = DirsOutside(dirs, VendorDir)
                              /\ calls' = [calls EXCEPT !.removeAll = @ + 1]
                         ELSE UNCHANGED <<fs, dirs, calls>>
                 ELSE /\ Fatalf(o)
                      /\ UNCHANGED <<fs, dirs, calls>>
       ELSE /\ pc' = "mode"
            /\ UNCHANGED <<fs, dirs, calls, env, failedAt>>
    /\ UNCHANGED <<destination, inputVars, scanVars, passVars, stdout, runVars, idx,
                   passes, writes, passStart>>

\* A plausible slip: the scan's error ignored, the maps used as they came.
AutoDetectErr_Ignored ==
    /\ pc = "mode"
    /\ modeAutoDetection
    /\ Gives("autoDetect", <<>>, "err")
    /\ env' = Noted(env, "autoDetect", <<>>, "err")
    /\ calls' = [calls EXCEPT !.autoDetect = @ + 1]
    /\ pathToTypeNames' = scanned.types
    /\ pathToFuncAndVarNames' = scanned.funcs
    /\ \E o1 \in RangeOrders(scanned.funcs), o2 \in RangeOrders(scanned.types) :
         pkgPaths' = SortStrings(DeduplicateStrings(o1 \o o2))
    /\ idx' = 1
    /\ pc' = "loop"
    /\ failedAt' = "autoDetect"
    /\ UNCHANGED <<destination, inputVars, passVars, osVars, runVars, passes, writes,
                   passStart>>

\* Lines 69-72: the scan fails and the run ends.
AutoDetectErr ==
    /\ pc = "mode"
    /\ modeAutoDetection
    /\ Gives("autoDetect", <<>>, "err")
    /\ env' = Noted(env, "autoDetect", <<>>, "err")
    /\ calls' = [calls EXCEPT !.autoDetect = @ + 1]
    /\ Fatalf("autoDetect")
    /\ UNCHANGED <<destination, inputVars, scanVars, passVars, osVars, runVars, idx,
                   passes, writes, passStart>>

\* Lines 69-83: the scan returns its maps; their keys, visited in any order,
\* are deduplicated and sorted.
AutoDetectOk ==
    /\ pc = "mode"
    /\ modeAutoDetection
    /\ Gives("autoDetect", <<>>, "ok")
    /\ env' = Noted(env, "autoDetect", <<>>, "ok")
    /\ calls' = [calls EXCEPT !.autoDetect = @ + 1]
    /\ pathToTypeNames' = scanned.types
    /\ pathToFuncAndVarNames' = scanned.funcs
    /\ \E o1 \in RangeOrders(scanned.funcs), o2 \in RangeOrders(scanned.types) :
         pkgPaths' = SortStrings(DeduplicateStrings(o1 \o o2))
    /\ idx' = 1
    /\ pc' = "loop"
    /\ UNCHANGED <<destination, inputVars, passVars, osVars, runVars, failedAt, passes,
                   writes, passStart>>

\* The call createStubs(name, types, funcs, ...): parameters bound, locals fresh.
Call(name, types, funcs) ==
    /\ packageName' = name
    /\ typeNames' = types
    /\ funcAndVarNames' = funcs
    /\ dst' = <<>>
    /\ out' = <<>>
    /\ pc' = "resolve"
    /\ passes' = Append(passes, [pkg |-> name, types |-> types, funcs |-> funcs])
    /\ passStart' = Snapshot
    /\ UNCHANGED <<pkg, g>>

\* Lines 85-92: the next path of the sorted list gets its pass.
LoopCall ==
    /\ pc = "loop"
    /\ idx <= Len(pkgPaths)
    /\ Call(pkgPaths[idx], Lookup(pathToTypeNames, pkgPaths[idx]),
            Lookup(pathToFuncAndVarNames, pkgPaths[idx]))
    /\ idx' = idx + 1
    /\ UNCHANGED <<destination, inputVars, scanVars, osVars, runVars, env, failedAt,
                   writes, calls>>

\* Line 85: the list is exhausted.
LoopExit ==
    /\ pc = "loop"
    /\ idx > Len(pkgPaths)
    /\ pc' = "modtxt"
    /\ UNCHANGED <<destination, inputVars, scanVars, passVars, osVars, runVars, idx, env,
                   failedAt, passes, writes, calls, passStart>>

\* Lines 94-97: neither two nor three positional arguments.
ExplicitUsage ==
    /\ pc = "mode"
    /\ ~modeAutoDetection
    /\ Len(args) # 2 /\ Len(args) # 3
    /\ calls' = [calls EXCEPT !.usage = @ + 1]
    /\ Fatalf("usage")
    /\ UNCHANGED <<destination, inputVars, scanVars, passVars, osVars, runVars, idx, env,
                   passes, writes, passStart>>

\* Lines 98-99: the one pass of explicit mode.
ExplicitCall ==
    /\ pc = "mode"
    /\ ~modeAutoDetection
    /\ Len(args) = 2 \/ Len(args) = 3
    /\ Call(FlagArg(args, 0), SplitArg(FlagArg(args, 1)), SplitArg(FlagArg(args, 2)))
    /\ UNCHANGED <<destination, inputVars, scanVars, osVars, runVars, idx, env, failedAt,
                   writes, calls>>

\* Lines 101-103: under -vendor the manifest is written last.
VendorModulesTxt ==
    /\ pc = "modtxt"
    /\ IF vendor
       THEN /\ calls' = [calls EXCEPT !.stubModulesTxt = @ + 1]
            /\ \E o \in {"ok", "err"} :
                 /\ Gives("stubModulesTxt", <<>>, o)
                 /\ env' = Noted(env, "stubModulesTxt", <<>>, o)
                 /\ IF o = "ok"
                    THEN /\ fs' = WithManifest(fs)
                         /\ dirs' = dirs \cup DirChain(VendorDir)
                         /\ pc' = "done"
                         /\ UNCHANGED failedAt
                    ELSE /\ Fatalf("stubModulesTxt")
                         /\ UNCHANGED <<fs, dirs>>
       ELSE /\ pc' = "done"
            /\ UNCHANGED <<fs, dirs, calls, env, failedAt>>
    /\ UNCHANGED <<destination, inputVars, scanVars, passVars, stdout, runVars, idx,
                   passes, writes, passStart>>


\* -------------------------------------------------------------- createStubs
\* The package path createStubs was called with: what names its external calls.
Subject == passes[Len(passes)].pkg

\* A plausible slip: the destination opened before the package is loaded.
StepAfter_OpenFirst(step) ==
    CASE step = "resolve" -> "dest"
      [] step = "dest" -> "open"
      [] step = "open" -> "reflect"
      [] step = "reflect" -> "generator"
      [] step = "generator" -> "generate"
      [] step = "generate" -> "output"
      [] step = "output" -> "write"
      [] step = "write" -> "licenses"

\* The order of createStubs' statements (lines 111-175).
StepAfter(step) ==
    CASE step = "resolve" -> "reflect"
      [] step = "reflect" -> "dest"
      [] step = "dest" -> "open"
      [] step = "open" -> "generator"
      [] step = "generator" -> "generate"
      [] step = "generate" -> "output"
      [] step = "output" -> "write"
      [] step = "write" -> "licenses"

\* Lines 111-120: "." stands for the package of the current directory.
ResolvePackageName ==
    /\ pc = "resolve"
    /\ IF packageName = DotPkg
       THEN \E o \in {"ok", "getwd", "packageNameOfDir"} :
              /\ Gives("resolve", Subject, o)
              /\ env' = Noted(env, "resolve", Subject, o)
              /\ IF o = "ok"
                 THEN /\ packageName' = CwdPkg
                      /\ pc' = StepAfter("resolve")
                      /\ UNCHANGED failedAt
                 ELSE /\ Fatalf(o)
                      /\ UNCHANGED packageName
       ELSE /\ pc' = StepAfter("resolve")
            /\ UNCHANGED <<packageName, env, failedAt>>
    /\ UNCHANGED <<destination, inputVars, scanVars, typeNames, funcAndVarNames, pkg, dst,
                   g, out, osVars, runVars, idx, passes, writes, calls, passStart>>

\* Lines 122-126: the package is loaded and the requested names extracted.
Reflect ==
    /\ pc = "reflect"
    /\ calls' = [calls EXCEPT !.reflectMode = @ + 1]
    /\ \E o \in {"ok", "err"} :
         /\ Gives("reflectMode", Subject, o)
         /\ env' = Noted(env, "reflectMode", Subject, o)
         /\ IF o = "ok"
            THEN /\ pkg' = ReflectMode(packageName, typeNames, funcAndVarNames)
                 /\ pc' = StepAfter("reflect")
                 /\ UNCHANGED failedAt
            ELSE /\ Fatalf("reflectMode")
                 /\ UNCHANGED pkg
    /\ UNCHANGED <<destination, inputVars, scanVars, packageName, typeNames,
                   funcAndVarNames, dst, g, out, osVars, runVars, idx, passes, writes,
                   passStart>>

\* Lines 128-136: dst is stdout; -vendor sets *destination.
ResolveDestination ==
    /\ pc = "dest"
    /\ dst' = <<>>
    /\ IF vendor
       THEN \E o \in {"ok", "getwd"} :
              /\ Gives("dest", Subject, o)
              /\ env' = Noted(env, "dest", Subject, o)
              /\ IF o = "ok"
                 THEN /\ destination' = StubDestination(destination, packageName)
                      /\ pc' = StepAfter("dest")
                      /\ UNCHANGED failedAt
                 ELSE /\ Fatalf("getwd")
                      /\ UNCHANGED destination
       ELSE /\ pc' = StepAfter("dest")
            /\ UNCHANGED <<destination, env, failedAt>>
    /\ UNCHANGED <<inputVars, scanVars, packageName, typeNames, funcAndVarNames, pkg, g,
                   out, osVars, runVars, idx, passes, writes, calls, passStart>>

\* Lines 138-148: a non-empty destination has its directory made and is
\* created, which empties a file that was there.
OpenDestination ==
    /\ pc = "open"
    /\ IF Len(destination) > 0
       THEN \E o \in {"ok", "mkdirAll", "create"} :
              /\ Gives("open", Subject, o)
              /\ env' = Noted(env, "open", Subject, o)
              /\ dirs' = IF o = "mkdirAll" THEN dirs
                         ELSE dirs \cup DirChain(FilepathDir(destination))
              /\ IF o = "ok"
                 THEN /\ fs' = (destination :> <<>>) @@ fs
                      /\ dst' = destination
                      /\ calls' = [calls EXCEPT !.create = @ + 1]
                      /\ pc' = StepAfter("open")
                      /\ UNCHANGED failedAt
                 ELSE /\ Fatalf(o)
                      /\ UNCHANGED <<fs, dst, calls>>
       ELSE /\ pc' = StepAfter("open")
            /\ UNCHANGED <<fs, dirs, dst, calls, env, failedAt>>
    /\ UNCHANGED <<destination, inputVars, scanVars, packageName, typeNames,
                   funcAndVarNames, pkg, g, out, stdout, runVars, idx, passes, writes,
                   passStart>>

\* Lines 150-164: a new generator, its source fields, the copyright header.
PrepareGenerator ==
    /\ pc = "generator"
    /\ LET fresh == [NewGenerator EXCEPT
                        !.srcPackage = packageName,
                        !.srcExports = Join(typeNames, <<Comma>>),
                        !.srcFunctions = Join(funcAndVarNames, <<Comma>>)]
       IN  IF copyrightFile # <<>>
           THEN \E o \in {"ok", "err"} :
                  /\ Gives("readFile", Subject, o)
                  /\ env' = Noted(env, "readFile", Subject, o)
                  /\ IF o = "err"
                     THEN /\ g' = fresh
                          /\ Fatalf("readFile")
                     ELSE /\ g' = [fresh EXCEPT !.copyrightHeader = FileText(copyrightFile)]
                          /\ pc' = StepAfter("generator")
                          /\ UNCHANGED failedAt
           ELSE /\ g' = fresh
                /\ pc' = StepAfter("generator")
                /\ UNCHANGED <<env, failedAt>>
    /\ UNCHANGED <<destination, inputVars, scanVars, packageName, typeNames,
                   funcAndVarNames, pkg, dst, out, osVars, runVars, idx, passes, writes,
                   calls, passStart>>

\* Lines 166-168: Generate fills the buffer; it returns no error.
GenerateStub ==
    /\ pc = "generate"
    /\ g' = [g EXCEPT !.buf = Generate(g, pkg)]
    /\ pc' = StepAfter("generate")
    /\ UNCHANGED <<destination, inputVars, scanVars, packageName, typeNames,
                   funcAndVarNames, pkg, dst, out, osVars, runVars, idx, env, failedAt,
                   passes, writes, calls, passStart>>

\* Lines 169, 238-245: Output formats the buffer, or the run ends.
Output ==
    /\ pc = "output"
    /\ \E o \in {"ok", "err"} :
         /\ Gives("imports.Process", Subject, o)
         /\ env' = Noted(env, "imports.Process", Subject, o)
         /\ IF o = "ok"
            THEN /\ out' = Format(g.buf)
                 /\ pc' = StepAfter("output")
                 /\ UNCHANGED failedAt
            ELSE /\ Fatalf("imports.Process")
                 /\ UNCHANGED out
    /\ UNCHANGED <<destination, inputVars, scanVars, packageName, typeNames,
                   funcAndVarNames, pkg, dst, g, osVars, runVars, idx, passes, writes,
                   calls, passStart>>

\* What dst holds once the lines `text` went to it.
Written(text) ==
    /\ IF dst = <<>>
       THEN /\ stdout' = stdout \o text
            /\ UNCHANGED fs
       ELSE /\ fs' = [fs EXCEPT ![dst] = @ \o text]
            /\ UNCHANGED stdout

\* Lines 169-171: the formatted stub is written to dst; a failed write may
\* have written nothing or only the first line.
WriteDestination ==
    /\ pc = "write"
    /\ \E o \in {"ok", "short", "err"} :
         /\ Gives("write", Subject, o)
         /\ env' = Noted(env, "write", Subject, o)
         /\ IF o = "ok"
            THEN /\ Written(out)
                 /\ writes' = Append(writes, [pass |-> Len(passes), dest |-> dst, text |-> out])
                 /\ pc' = StepAfter("write")
                 /\ UNCHANGED failedAt
            ELSE /\ Written(IF o = "short" THEN SubSeq(out, 1, 1) ELSE <<>>)
                 /\ Fatalf("write")
                 /\ UNCHANGED writes
    /\ UNCHANGED <<destination, inputVars, scanVars, passVars, dirs, runVars, idx, passes,
                   calls, passStart>>

\* Lines 173-176: the licenses are copied and createStubs returns to main.
CopyLicenses ==
    /\ pc = "licenses"
    /\ \E o \in {"ok", "err"} :
         /\ Gives("copyLicenses", Subject, o)
         /\ env' = Noted(env, "copyLicenses", Subject, o)
         /\ IF o = "ok"
            THEN /\ pc' = IF modeAutoDetection THEN "loop" ELSE "modtxt"
                 /\ UNCHANGED failedAt
            ELSE Fatalf("copyLicenses")
    /\ UNCHANGED <<destination, inputVars, scanVars, passVars, osVars, runVars, idx, passes,
                   writes, calls, passStart>>

\* ------------------------------------------------------------ specification
Next ==
    \/ WriteModuleTxtMode
    \/ PrintGoGenComments
    \/ ForceOverwrite
    \/ AutoDetectErr
    \/ AutoDetectOk
    \/ LoopCall
    \/ LoopExit
    \/ ExplicitUsage
    \/ ExplicitCall
    \/ VendorModulesTxt
    \/ ResolvePackageName
    \/ Reflect
    \/ ResolveDestination
    \/ OpenDestination
    \/ PrepareGenerator
    \/ GenerateStub
    \/ Output
    \/ WriteDestination
    \/ CopyLicenses

Spec == Init /\ [][Next]_vars

\* The same command run a second time: a new process, the files as the first
\* run left them, the environment answering as it did.
Rerun ==
    /\ run = 1
    /\ pc \in {"done", "fatal"}
    /\ run' = 2
    /\ prev' = [passes |-> passes, writes |-> writes, stdout |-> stdout, pc |-> pc,
                failedAt |-> failedAt]
    /\ initial' = [initial EXCEPT !.fs = fs, !.dirs = dirs]
    /\ destination' = initial.destination
    /\ stdout' = <<>>
    /\ pc' = "main"
    /\ pathToTypeNames' = NoScan.types
    /\ pathToFuncAndVarNames' = NoScan.funcs
    /\ pkgPaths' = <<>>
    /\ idx' = 1
    /\ packageName' = <<>>
    /\ typeNames' = <<>>
    /\ funcAndVarNames' = <<>>
    /\ pkg' = [Body |-> Blank]
    /\ dst' = <<>>
    /\ g' = ZeroGenerator
    /\ out' = <<>>
    /\ failedAt' = ""
    /\ passes' = <<>>
    /\ writes' = <<>>
    /\ calls' = NoCalls
    /\ passStart' = [fs |-> fs, dirs |-> dirs, stdout |-> <<>>]
    /\ UNCHANGED <<inputVars, fs, dirs, env>>

NextTwice == Next \/ Rerun

SpecTwice == Init /\ [][NextTwice]_vars


\* ------------------------------------------------------------------ claims
\* The package path a pass extracts: its argument, or for "." the package
\* name of the current directory.
Extracted(p) == IF p.pkg = DotPkg THEN CwdPkg ELSE p.pkg

ScanKeys == DOMAIN scanned.types \cup DOMAIN scanned.funcs

\* The passes the run has to make.
Planned == IF AutoMode THEN Len(pkgPaths) ELSE IF ExplicitMode THEN 1 ELSE 0

\* Every pass of the run has returned.
PassesOver == pc \in {"modtxt", "done"} \/ failedAt = "stubModulesTxt"

\* text occurs in stream as a run of consecutive lines.
Holds(stream, text) ==
    \E k \in 0..(Len(stream) - Len(text)) :
        SubSeq(stream, k + 1, k + Len(text)) = text

\* C1: in auto mode autoDetect is called at most once; once a pass has begun
\* or reflectMode has been called, the scan has returned without error and
\* both maps hold all it returned; a run whose scan failed has ended with no
\* pass, no extraction and no stub written.
C1_ScanBeforeExtraction ==
    AutoMode =>
        /\ calls.autoDetect <= 1
        /\ (passes # <<>> \/ calls.reflectMode > 0) =>
              /\ calls.autoDetect = 1
              /\ failedAt # "autoDetect"
              /\ pathToTypeNames = scanned.types
              /\ pathToFuncAndVarNames = scanned.funcs
        /\ failedAt = "autoDetect" =>
              /\ pc = "fatal"
              /\ passes = <<>>
              /\ calls.reflectMode = 0
              /\ writes = <<>>

C1_Witness ==
    /\ AutoMode
    /\ calls.autoDetect = 1
    /\ calls.reflectMode = 2
    /\ ScanKeys # {}

\* C2: in auto mode the passes made so far are for strictly ascending package
\* paths, each with the names the two maps hold for its path (none where a
\* map lacks the path); once every pass has returned, there has been exactly
\* one pass per path that is a key of either map, so none when both are empty.
C2_OnePassPerPath ==
    AutoMode =>
        /\ \A i \in 1..Len(passes) :
              /\ passes[i].pkg \in ScanKeys
              /\ i > 1 => StringLess(passes[i - 1].pkg, passes[i].pkg)
              /\ passes[i].types =
                    IF passes[i].pkg \in DOMAIN scanned.types
                    THEN scanned.types[passes[i].pkg] ELSE <<>>
              /\ passes[i].funcs =
                    IF passes[i].pkg \in DOMAIN scanned.funcs
                    THEN scanned.funcs[passes[i].pkg] ELSE <<>>
        /\ PassesOver =>
              /\ Len(passes) = Cardinality(ScanKeys)
              /\ {passes[i].pkg : i \in 1..Len(passes)} = ScanKeys

C2_Witness ==
    /\ AutoMode
    /\ pc = "done"
    /\ Len(passes) = 2
    /\ DOMAIN scanned.types \cap DOMAIN scanned.funcs # {}
    /\ DOMAIN scanned.funcs \ DOMAIN scanned.types # {}

\* C3: when reflectMode fails the run is over, and the files, the directories
\* and stdout are as they were when the pass began: nothing was created,
\* emptied or written for that package.
C3_ExtractionFailureWritesNothing ==
    failedAt = "reflectMode" =>
        /\ pc = "fatal"
        /\ fs = passStart.fs
        /\ dirs = passStart.dirs
        /\ stdout = passStart.stdout
        /\ \A i \in 1..Len(writes) : writes[i].pass # Len(passes)

C3_Witness ==
    /\ failedAt = "reflectMode"
    /\ Len(passes) = 2
    /\ Len(writes) = 1
    /\ initial.destination # <<>>

\* The file the current pass writes to (none: stdout).
PassDestination ==
    IF vendor
    THEN ModuleRoot \o <<Slash>> \o VendorName \o <<Slash>> \o packageName
         \o <<Slash>> \o StubFile
    ELSE initial.destination

\* C4: a pass that failed at extraction, at reading the copyright file or at
\* formatting leaves its destination file as it was before the pass (absent,
\* or with the same content), or holding the complete stub.
C4_NoPartialStub ==
    (failedAt \in {"reflectMode", "readFile", "imports.Process"}
     /\ PassDestination # <<>>) =>
        \/ /\ PassDestination \notin DOMAIN fs
           /\ PassDestination \notin DOMAIN passStart.fs
        \/ /\ PassDestination \in DOMAIN fs
           /\ PassDestination \in DOMAIN passStart.fs
           /\ fs[PassDestination] = passStart.fs[PassDestination]
        \/ /\ PassDestination \in DOMAIN fs
           /\ \E i \in 1..Len(writes) :
                /\ writes[i].pass = Len(passes)
                /\ fs[PassDestination] = writes[i].text

\* C5: once a step has failed nothing more happens: no pass starts, nothing is
\* written, no file or directory changes, the manifest is not written; and
\* stubModulesTxt is called only when every planned pass has been made, has
\* written its stub and has returned without failure.
C5_FailureAbortsRun ==
    /\ [][failedAt # "" =>
            /\ passes' = passes
            /\ writes' = writes
            /\ calls' = calls
            /\ fs' = fs
            /\ dirs' = dirs
            /\ stdout' = stdout
            /\ failedAt' = failedAt]_vars
    /\ [](failedAt # "" => pc = "fatal")
    /\ [](calls.stubModulesTxt > 0 =>
            /\ failedAt \in {"", "stubModulesTxt"}
            /\ Len(passes) = Planned
            /\ Len(writes) = Len(passes))

C5_Witness ==
    /\ AutoMode
    /\ vendor
    /\ failedAt = "copyLicenses"
    /\ Len(passes) = 1
    /\ Len(pkgPaths) = 2
    /\ Len(writes) = 1

\* C6: every stub written starts with the marker line, then the line naming
\* the package extracted ("." resolved), and has, before the package body, the
\* Source line with that package and the pass's two name lists, each joined
\* with commas in the order requested.
C6_ProvenanceHeader ==
    \A i \in 1..Len(writes) :
        LET t == writes[i].text
            p == passes[writes[i].pass]
        IN  /\ Len(t) >= 4
            /\ t[1] = GeneratedMarker
            /\ t[2] = Line("// This is a simple stub for %s, strictly for use in testing.",
                           Extracted(p), <<>>, <<>>)
            /\ \E k \in 3..(Len(t) - 1) :
                  /\ t[k] = Line("// Source: %s (exports: %s; functions: %s)",
                                 Extracted(p), Join(p.types, <<Comma>>),
                                 Join(p.funcs, <<Comma>>))
                  /\ \A m \in 1..k : t[m].kind # "gofmt"
                  /\ \E b \in (k + 1)..Len(t) : t[b].kind = "gofmt"

C6_Witness ==
    \E i \in 1..Len(writes) :
        /\ passes[writes[i].pass].pkg = DotPkg
        /\ Len(passes[writes[i].pass].types) = 2
        /\ Len(passes[writes[i].pass].funcs) = 1
        /\ g.copyrightHeader # <<>>

\* C7: the same command run again, with the environment answering as it did,
\* makes the same passes, writes the same texts to the same destinations and
\* ends the same way; and each text written holds one marker line and one
\* package body, that of its own pass, whatever passes ran before it.
C7_Deterministic ==
    /\ (run = 2 /\ pc \in {"done", "fatal"}) =>
          /\ passes = prev.passes
          /\ writes = prev.writes
          /\ stdout = prev.stdout
          /\ pc = prev.pc
          /\ failedAt = prev.failedAt
    /\ \A i \in 1..Len(writes) :
          LET t == writes[i].text
          IN  /\ Cardinality({k \in 1..Len(t) : t[k] = GeneratedMarker}) = 1
              /\ Cardinality({k \in 1..Len(t) : t[k].kind = "gofmt"}) = 1
              /\ \A k \in 1..Len(t) :
                    t[k].kind = "gofmt" => t[k].a = Extracted(passes[writes[i].pass])

C7_Witness ==
    /\ run = 2
    /\ pc = "done"
    /\ Len(writes) >= 2
    /\ forceOverwrite
    /\ vendor

\* C8: a stub is written to <module root>/vendor/<package>/stub.go under
\* -vendor whatever -destination was, to the -destination path when that is
\* given without -vendor, and to stdout otherwise; a run with neither flag
\* that makes a pass creates or changes no file and no directory.
C8_DestinationResolution ==
    /\ \A i \in 1..Len(writes) :
          writes[i].dest =
              IF vendor
              THEN ModuleRoot \o <<Slash>> \o VendorName \o <<Slash>>
                   \o Extracted(passes[writes[i].pass]) \o <<Slash>> \o StubFile
              ELSE initial.destination
    /\ (~vendor /\ initial.destination = <<>> /\ passes # <<>>) =>
          /\ fs = initial.fs
          /\ dirs = initial.dirs
          /\ \A i \in 1..Len(writes) : Holds(stdout, writes[i].text)

C8_Witness ==
    /\ vendor
    /\ initial.destination # <<>>
    /\ Len(writes) = 2

\* C9: an auto-mode run over two or more packages that ended without failure
\* has, for each package, the stub written for it in full at its destination.
C9_EveryStubKept ==
    (AutoMode /\ pc = "done" /\ Len(passes) >= 2) =>
        /\ Len(writes) = Len(passes)
        /\ \A i \in 1..Len(writes) :
              IF writes[i].dest = <<>>
              THEN Holds(stdout, writes[i].text)
              ELSE /\ writes[i].dest \in DOMAIN fs
                   /\ fs[writes[i].dest] = writes[i].text

\* C10: an explicit-mode run ended by the argument count check has printed the
\* usage and has called no extraction, created or emptied no file, removed
\* no vendor directory and written no manifest.
C10_UsageFailureTouchesNothing ==
    failedAt = "usage" =>
        /\ pc = "fatal"
        /\ calls.usage = 1
        /\ calls.reflectMode = 0
        /\ calls.create = 0
        /\ calls.removeAll = 0
        /\ calls.stubModulesTxt = 0
        /\ fs = initial.fs
        /\ dirs = initial.dirs

====
